---- MODULE Spec2Model ----
(***************************************************************************)
(* Model of the A/B testing engine of the ai-validation-service            *)
(* (services/drift_detection_service.py, class ABTestingService) together  *)
(* with the ab_tests table it persists to through the SQLAlchemy session.  *)
(*                                                                         *)
(* The table row is the shared state.  Every service method loads the row  *)
(* into a session object, assigns attributes and commits; a commit writes  *)
(* the attributes that were ASSIGNED since the load (the unit of work of   *)
(* the ORM) and expires the object, so the next attribute access reloads   *)
(* the row.  record_result is modelled at the granularity of its database  *)
(* round trips so that calls of concurrent request workers interleave.     *)
(***************************************************************************)
EXTENDS Integers, Sequences, FiniteSets, TLC

\* ------------------------------------------------------------------ bounds
MaxTime    == 3     \* the clock runs over 0..MaxTime days
MaxSamples == 2     \* record_result is not called once a loaded count reached it

\* ------------------------------------------------------- input domains
TestIds      == {1}                  \* ids of the rows that get created
CallTestIds  == TestIds \cup {99}     \* ids callers pass; 99 never exists
Workers      == {"w1", "w2"}         \* request workers running record_result
SeqWorkers   == {"w1"}               \* one request at a time
RequestIds   == {"req-0", "req-3"}
MetricNames  == {"accuracy", "latency"}
Values       == {1, 3}
Splits       == {0, 500, 1000}       \* traffic_split in thousandths
MinSizes     == {1, 2}               \* min_sample_size choices
ChampionModel   == "ocr-v2"
ChallengerModel == "ocr-v3"
OtherModel      == "ocr-v9"
Models       == {ChampionModel, ChallengerModel, OtherModel}

MaxDurations == {1}                  \* max_duration_days choices
NoTime          == 0 - 1             \* completed_at IS NULL

\* class ABTestStatus
RUNNING   == "RUNNING"
COMPLETED == "COMPLETED"
PAUSED    == "PAUSED"
CANCELLED == "CANCELLED"
ABTestStatus == {RUNNING, COMPLETED, PAUSED, CANCELLED}

VARIABLES
    db,       \* the ab_tests table: test_id -> committed row
    now,      \* datetime.utcnow(), in days
    pc,       \* worker -> position inside record_result
    sess,     \* worker -> session object and call arguments (busy workers only)
    ret,      \* response of the latest route_prediction call
    routed,   \* history: test_id -> request_id -> the variants returned so far
    fed,      \* history: test_id -> variant -> <<metric, value>> of each record_result call
    utc,             \* datetime.utcnow() of the monitoring services, in minutes
    alert_history,   \* AlertManager.alert_history: the Alert objects, in creation order
    active_alerts,   \* AlertManager.active_alerts: alert_id -> position of the object in alert_history
    last,            \* history: the latest call to a monitoring service and what it returned
    predictions,     \* table model_predictions, in insertion order
    model_alerts,    \* table model_alerts, in insertion order
    model_metrics,   \* table model_metrics, in insertion order
    drift_detections \* table drift_detections, in insertion order

\* the A/B testing engine
abVars == <<db, now, pc, sess, ret, routed, fed>>

\* the tables of model_monitoring_service.py and DriftDetectionService
tableVars == <<predictions, model_alerts, model_metrics, drift_detections>>

\* the state of the monitoring services (production_monitoring.py,
\* model_monitoring_service.py, DriftDetectionService)
monVars == <<utc, alert_history, active_alerts, last, tableVars>>

vars == <<db, now, pc, sess, ret, routed, fed, monVars>>

\* ------------------------------------------------------------ data model
EmptySeries == [m \in MetricNames |-> <<>>]

\* ABTest.metrics: NULL, or {'champion': {name: [..]}, 'challenger': {name: [..]}}
\* (a name that is not a key of the dict is the empty series here)
NullMetrics  == [null |-> TRUE,  champion |-> EmptySeries, challenger |-> EmptySeries]
EmptyMetrics == [null |-> FALSE, champion |-> EmptySeries, challenger |-> EmptySeries]

\* class ABTest: the row create_ab_test inserts (column defaults included)
ABTest(split, minsize, maxdays, t0) ==
    [ champion_model     |-> ChampionModel,
      challenger_model   |-> ChallengerModel,
      traffic_split      |-> split,
      min_sample_size    |-> minsize,
      max_duration_days  |-> maxdays,
      status             |-> RUNNING,
      champion_samples   |-> 0,
      challenger_samples |-> 0,
      winner             |-> "none",
      statistical_significance |-> FALSE,
      metrics            |-> NullMetrics,
      started_at         |-> t0,
      completed_at       |-> NoTime ]

NoRet == [op |-> "none"]

Init ==
    /\ db = <<>>
    /\ now = 0
    /\ pc = [w \in Workers |-> "idle"]
    /\ sess = <<>>
    /\ ret = NoRet
    /\ routed = [t \in TestIds |-> [r \in RequestIds |-> {}]]
    /\ fed = [t \in TestIds |-> [champion |-> <<>>, challenger |-> <<>>]]
    /\ utc = 0
    /\ alert_history = <<>>
    /\ active_alerts = <<>>
    /\ last = [op |-> "none"]
    /\ predictions = <<>>
    /\ model_alerts = <<>>
    /\ model_metrics = <<>>
    /\ drift_detections = <<>>

\* ------------------------------------------------------------------ clock
\* days are counted from the creation of the first test
Tick ==
    /\ now < MaxTime
    /\ db # <<>>
    /\ now' = now + 1
    /\ UNCHANGED <<db, pc, sess, ret, routed, fed>>
    /\ UNCHANGED monVars

\* --------------------------------------------------------- create_ab_test
\* test ids are fresh uuids: every call inserts a new row
create_ab_test(split, minsize, maxdays) ==
    /\ Len(db) + 1 \in TestIds
    /\ db' = Append(db, ABTest(split, minsize, maxdays, now))
    /\ ret' = NoRet
    /\ UNCHANGED <<now, pc, sess, routed, fed>>
    /\ UNCHANGED monVars

\* ------------------------------------------------------- route_prediction
\* int(hashlib.md5(request_id.encode()).hexdigest(), 16) % 100
Md5Mod100(request_id) ==
    CASE request_id = "req-0" -> 26 [] request_id = "req-1" -> 20 [] request_id = "req-2" -> 44
      [] request_id = "req-3" -> 77 [] request_id = "req-4" -> 86 [] request_id = "req-5" -> 66
      [] request_id = "req-6" -> 94 [] request_id = "req-7" -> 92 [] request_id = "req-8" -> 11
      [] request_id = "req-9" -> 3 [] request_id = "req-10" -> 29 [] request_id = "req-11" -> 21
      [] request_id = "req-12" -> 30 [] request_id = "req-13" -> 14 [] request_id = "req-14" -> 55
      [] request_id = "req-15" -> 37 [] request_id = "req-16" -> 84 [] request_id = "req-17" -> 51
      [] request_id = "req-18" -> 78 [] request_id = "req-19" -> 1 [] request_id = "req-20" -> 79
      [] request_id = "req-22" -> 23 [] request_id = "req-23" -> 93 [] request_id = "req-24" -> 56
      [] request_id = "req-25" -> 76 [] request_id = "req-28" -> 89 [] request_id = "req-30" -> 69
      [] request_id = "req-31" -> 15 [] request_id = "req-32" -> 41 [] request_id = "req-33" -> 12
      [] request_id = "req-34" -> 16 [] request_id = "req-35" -> 34 [] request_id = "req-36" -> 98
      [] request_id = "req-37" -> 63 [] request_id = "req-38" -> 31 [] request_id = "req-39" -> 10
      [] request_id = "req-40" -> 73 [] request_id = "req-41" -> 28 [] request_id = "req-43" -> 7
      [] request_id = "req-44" -> 72 [] request_id = "req-45" -> 5 [] request_id = "req-47" -> 2
      [] request_id = "req-48" -> 85 [] request_id = "req-49" -> 17 [] request_id = "req-50" -> 40
      [] request_id = "req-52" -> 9 [] request_id = "req-53" -> 43 [] request_id = "req-55" -> 75
      [] request_id = "req-56" -> 81 [] request_id = "req-58" -> 60 [] request_id = "req-59" -> 36
      [] request_id = "req-63" -> 38 [] request_id = "req-65" -> 39 [] request_id = "req-73" -> 70
      [] request_id = "req-75" -> 27 [] request_id = "req-76" -> 59 [] request_id = "req-81" -> 52
      [] request_id = "req-83" -> 95 [] request_id = "req-84" -> 99 [] request_id = "req-86" -> 22
      [] request_id = "req-87" -> 25 [] request_id = "req-91" -> 46 [] request_id = "req-92" -> 90
      [] request_id = "req-93" -> 53 [] request_id = "req-94" -> 32 [] request_id = "req-98" -> 91
      [] request_id = "req-103" -> 61 [] request_id = "req-104" -> 45 [] request_id = "req-106" -> 96
      [] request_id = "req-107" -> 68 [] request_id = "req-108" -> 6 [] request_id = "req-114" -> 97
      [] request_id = "req-118" -> 80 [] request_id = "req-120" -> 13 [] request_id = "req-127" -> 71
      [] request_id = "req-133" -> 18 [] request_id = "req-135" -> 58 [] request_id = "req-142" -> 35
      [] request_id = "req-152" -> 74 [] request_id = "req-154" -> 49 [] request_id = "req-157" -> 83
      [] request_id = "req-160" -> 54 [] request_id = "req-162" -> 47 [] request_id = "req-170" -> 48
      [] request_id = "req-180" -> 8 [] request_id = "req-182" -> 24 [] request_id = "req-186" -> 87
      [] request_id = "req-188" -> 62 [] request_id = "req-200" -> 19 [] request_id = "req-203" -> 33
      [] request_id = "req-206" -> 65 [] request_id = "req-215" -> 42 [] request_id = "req-219" -> 0
      [] request_id = "req-224" -> 50 [] request_id = "req-289" -> 4 [] request_id = "req-303" -> 82
      [] request_id = "req-318" -> 88 [] request_id = "req-352" -> 64 [] request_id = "req-401" -> 57
      [] request_id = "req-478" -> 67
      [] OTHER -> 66

\* one request id for every value of the hash modulo 100
BucketIds ==
    { "req-219", "req-19", "req-47", "req-9", "req-289", "req-45", "req-108", "req-43",
      "req-180", "req-52", "req-39", "req-8", "req-33", "req-120", "req-13", "req-31",
      "req-34", "req-49", "req-133", "req-200", "req-1", "req-11", "req-86", "req-22",
      "req-182", "req-87", "req-0", "req-75", "req-41", "req-10", "req-12", "req-38",
      "req-94", "req-203", "req-35", "req-142", "req-59", "req-15", "req-63", "req-65",
      "req-50", "req-32", "req-215", "req-53", "req-2", "req-104", "req-91", "req-162",
      "req-170", "req-154", "req-224", "req-17", "req-81", "req-93", "req-160", "req-14",
      "req-24", "req-401", "req-135", "req-76", "req-58", "req-103", "req-188", "req-37",
      "req-352", "req-206", "req-5", "req-478", "req-107", "req-30", "req-73", "req-127",
      "req-44", "req-40", "req-152", "req-55", "req-25", "req-3", "req-18", "req-20",
      "req-118", "req-56", "req-303", "req-157", "req-16", "req-48", "req-4", "req-186",
      "req-318", "req-28", "req-92", "req-98", "req-7", "req-23", "req-6", "req-83",
      "req-106", "req-114", "req-36", "req-84" }

RouteAssignment_SampleDependent(test, request_id) ==
    10 * ((Md5Mod100(request_id)
              + 37 * (test.champion_samples + test.challenger_samples)) % 100)

\* assignment = (hash_val % 100) / 100.0, in thousandths
RouteAssignment(test, request_id) == 10 * Md5Mod100(request_id)

RouteResult_NoStatusCheck(tests, test_id, request_id) ==
    IF test_id \notin DOMAIN tests
    THEN "error"
    ELSE IF RouteAssignment(tests[test_id], request_id) < tests[test_id].traffic_split
         THEN tests[test_id].challenger_model
         ELSE tests[test_id].champion_model

RouteResult_Inclusive(tests, test_id, request_id) ==
    IF test_id \notin DOMAIN tests \/ tests[test_id].status # RUNNING
    THEN "error"
    ELSE IF RouteAssignment(tests[test_id], request_id) <= tests[test_id].traffic_split
         THEN tests[test_id].challenger_model
         ELSE tests[test_id].champion_model

\* the value route_prediction returns, "error" for the ValueError
RouteResult(tests, test_id, request_id) ==
    IF test_id \notin DOMAIN tests \/ tests[test_id].status # RUNNING
    THEN "error"
    ELSE IF RouteAssignment(tests[test_id], request_id) < tests[test_id].traffic_split
         THEN tests[test_id].challenger_model
         ELSE tests[test_id].champion_model

route_prediction(test_id, request_id) ==
    LET result == RouteResult(db, test_id, request_id) IN
    /\ ret' = [op |-> "route", test_id |-> test_id, request_id |-> request_id,
               result |-> result]
    /\ routed' = IF result = "error" THEN routed
                 ELSE [routed EXCEPT ![test_id][request_id] = @ \cup {result}]
    /\ UNCHANGED <<db, now, pc, sess, fed>>
    /\ UNCHANGED monVars

\* ---------------------------------------- pause_test / resume_test / cancel_test
pause_test(test_id) ==
    /\ db' = IF test_id \in DOMAIN db
             THEN [db EXCEPT ![test_id].status = PAUSED]
             ELSE db
    /\ ret' = NoRet
    /\ UNCHANGED <<now, pc, sess, routed, fed>>
    /\ UNCHANGED monVars

\* Variant: resume does not look at the current status.
resume_test_AnyStatus(test_id) ==
    /\ db' = IF test_id \in DOMAIN db
             THEN [db EXCEPT ![test_id].status = RUNNING]
             ELSE db
    /\ ret' = NoRet
    /\ UNCHANGED <<now, pc, sess, routed, fed>>
    /\ UNCHANGED monVars

resume_test(test_id) ==
    /\ db' = IF test_id \in DOMAIN db /\ db[test_id].status = PAUSED
             THEN [db EXCEPT ![test_id].status = RUNNING]
             ELSE db
    /\ ret' = NoRet
    /\ UNCHANGED <<now, pc, sess, routed, fed>>
    /\ UNCHANGED monVars

cancel_test(test_id) ==
    /\ db' = IF test_id \in DOMAIN db
             THEN [db EXCEPT ![test_id].status = CANCELLED,
                             ![test_id].completed_at = now]
             ELSE db
    /\ ret' = NoRet
    /\ UNCHANGED <<now, pc, sess, routed, fed>>
    /\ UNCHANGED monVars

\* ---------------------------------------------------------- statistics
RECURSIVE Sum(_)
Sum(s) == IF s = <<>> THEN 0 ELSE Head(s) + Sum(Tail(s))

RECURSIVE SumSq(_)
SumSq(s) == IF s = <<>> THEN 0 ELSE Head(s) * Head(s) + SumSq(Tail(s))

\* 1000 * (two-sided 5% critical value of Student's t with df degrees of
\* freedom)^2; significance_level keeps its column default 0.05
TCrit2x1000(df) ==
    CASE df = 1 -> 161448 [] df = 2 -> 18513 [] df = 3 -> 10128
      [] df = 4 -> 7709   [] df = 5 -> 6608  [] df = 6 -> 5987
      [] df = 7 -> 5591   [] df = 8 -> 5318  [] df = 9 -> 5117
      [] df = 10 -> 4965  [] df = 11 -> 4844 [] df = 12 -> 4747
      [] df = 13 -> 4667  [] OTHER -> 4600

\* np.mean(b) > np.mean(a), cross-multiplied (both series non-empty)
MeanGreater(b, a) == Sum(b) * Len(a) > Sum(a) * Len(b)

\* stats.ttest_ind(a, b)[1] < significance_level   (pooled-variance t test)
\*   t^2 = D^2 * df / ((n1 + n2) * E),  D = n2*S1 - n1*S2,
\*   E = n2*(n1*Q1 - S1^2) + n1*(n2*Q2 - S2^2),  df = n1 + n2 - 2
\* a nan p-value (a series of fewer than two values, whose ddof=1 variance is
\* nan, or no variance and equal means) compares False; no variance with
\* different means gives t = inf and p = 0
TTestSignificant(a, b) ==
    LET n1 == Len(a)
        n2 == Len(b)
        df == n1 + n2 - 2
        D  == n2 * Sum(a) - n1 * Sum(b)
        E  == n2 * (n1 * SumSq(a) - Sum(a) * Sum(a))
              + n1 * (n2 * SumSq(b) - Sum(b) * Sum(b))
    IN  IF n1 < 2 \/ n2 < 2 THEN FALSE
        ELSE IF E = 0 THEN D # 0
        ELSE 1000 * D * D * df > TCrit2x1000(df) * (n1 + n2) * E

\* ------------------------------------------------------ the ORM session
\* What db.session.commit() flushes: the UPDATE of the attributes that were
\* assigned since the load and whose value differs from the loaded one.  A
\* list appended to inside the loaded JSON dict is no assignment of the
\* metrics attribute, so it is not part of the UPDATE.
Pending(loaded, obj, assigned) ==
    [f \in {g \in assigned : obj[g] # loaded[g]} |-> obj[f]]

\* the row after the UPDATE
Flush(row, pending) ==
    [f \in DOMAIN row |-> IF f \in DOMAIN pending THEN pending[f] ELSE row[f]]

\* --------------------------------------------------------- record_result
VariantOf(test, model) ==
    IF model = test.champion_model THEN "champion"
    ELSE IF model = test.challenger_model THEN "challenger"
    ELSE "none"

\* lines 463-484: the in-memory changes record_result makes to the loaded test
Recorded(test, model, metric_name, metric_value) ==
    LET m0 == IF test.metrics.null THEN EmptyMetrics ELSE test.metrics
        v  == VariantOf(test, model)
    IN  IF v = "champion"
        THEN [test EXCEPT !.champion_samples = @ + 1,
                          !.metrics = [m0 EXCEPT !.champion[metric_name] =
                                                     Append(@, metric_value)]]
        ELSE IF v = "challenger"
        THEN [test EXCEPT !.challenger_samples = @ + 1,
                          !.metrics = [m0 EXCEPT !.challenger[metric_name] =
                                                     Append(@, metric_value)]]
        ELSE [test EXCEPT !.metrics = m0]

\* the attributes record_result assigns (test.metrics = ..., test.x_samples += 1)
RecordedAssigned(test, model) ==
    (IF test.metrics.null THEN {"metrics"} ELSE {})
    \cup (IF VariantOf(test, model) = "champion" THEN {"champion_samples"} ELSE {})
    \cup (IF VariantOf(test, model) = "challenger" THEN {"challenger_samples"} ELSE {})

\* ValueError("Test ... not found")
record_result_not_found(w, test_id) ==
    /\ pc[w] = "idle"
    /\ test_id \notin DOMAIN db
    /\ ret' = NoRet
    /\ UNCHANGED <<db, now, pc, sess, routed, fed>>
    /\ UNCHANGED monVars

\* lines 458-484: ABTest.query...first() and the in-memory update
record_result_load(w, test_id, model, metric_name, metric_value) ==
    /\ pc[w] = "idle"
    /\ test_id \in DOMAIN db
    /\ LET test == db[test_id]
           v    == VariantOf(test, model)
       IN  /\ v = "champion" =>
                 test.champion_samples < MaxSamples /\ Len(fed[test_id][v]) <= MaxSamples
           /\ v = "challenger" =>
                 test.challenger_samples < MaxSamples /\ Len(fed[test_id][v]) <= MaxSamples
           /\ sess' = (w :> [ test_id |-> test_id,
                              status  |-> test.status,
                              pending |-> Pending(test,
                                             Recorded(test, model, metric_name, metric_value),
                                             RecordedAssigned(test, model)) ]) @@ sess
           /\ fed' = IF v = "none" THEN fed
                     ELSE [fed EXCEPT ![test_id][v] =
                               Append(@, <<metric_name, metric_value>>)]
    /\ pc' = [pc EXCEPT ![w] = "loaded"]
    /\ ret' = NoRet
    /\ UNCHANGED <<db, now, routed>>
    /\ UNCHANGED monVars

\* Variant: the UPDATE of the commit carries no WHERE clause on the test id.
record_result_commit_AllRows(w) ==
    /\ pc[w] = "loaded"
    /\ db' = [t \in DOMAIN db |-> Flush(db[t], sess[w].pending)]
    /\ sess' = [sess EXCEPT ![w].pending = <<>>]
    /\ pc' = [pc EXCEPT ![w] = "committed"]
    /\ ret' = NoRet
    /\ UNCHANGED <<now, routed, fed>>
    /\ UNCHANGED monVars

\* line 486: db.session.commit()
record_result_commit(w) ==
    /\ pc[w] = "loaded"
    /\ db' = [db EXCEPT ![sess[w].test_id] = Flush(@, sess[w].pending)]
    /\ sess' = [sess EXCEPT ![w].pending = <<>>]
    /\ pc' = [pc EXCEPT ![w] = "committed"]
    /\ ret' = NoRet
    /\ UNCHANGED <<now, routed, fed>>
    /\ UNCHANGED monVars

\* _complete_test up to its commit: the test as _complete_test leaves it
CompleteTest(test, t) ==
    LET a == test.metrics.champion["accuracy"]
        b == test.metrics.challenger["accuracy"]
        w == IF test.metrics.null \/ a = <<>> \/ b = <<>> THEN test.winner
             ELSE IF TTestSignificant(a, b)
                  THEN (IF MeanGreater(b, a) THEN "challenger" ELSE "champion")
                  ELSE "none"
    IN  [test EXCEPT !.status = COMPLETED, !.completed_at = t, !.winner = w]

\* the attributes _complete_test assigns
CompleteAssigned(test) ==
    {"status", "completed_at"}
    \cup (IF test.metrics.null \/ test.metrics.champion["accuracy"] = <<>>
             \/ test.metrics.challenger["accuracy"] = <<>>
          THEN {} ELSE {"winner"})

\* lines 504-517: some metric of the champion dict passes the t test
SignificanceFound(test) ==
    /\ ~test.metrics.null
    /\ \E m \in MetricNames :
          /\ test.metrics.champion[m] # <<>>
          /\ Len(test.metrics.champion[m]) >= test.min_sample_size
          /\ Len(test.metrics.challenger[m]) >= test.min_sample_size
          /\ TTestSignificant(test.metrics.champion[m], test.metrics.challenger[m])

\* _check_test_completion: "none", "duration" or "significance"
CheckTestCompletion(test, t) ==
    IF test.champion_samples < test.min_sample_size
       \/ test.challenger_samples < test.min_sample_size
    THEN "none"
    ELSE IF t - test.started_at > test.max_duration_days
    THEN "duration"
    ELSE IF SignificanceFound(test) THEN "significance" ELSE "none"

\* line 489: the expired test is reloaded and _check_test_completion runs on
\* it, up to the commit of _complete_test
record_result_check(w) ==
    /\ pc[w] = "committed"
    /\ LET test == db[sess[w].test_id]
           why  == CheckTestCompletion(test, now)
           sig  == [test EXCEPT !.statistical_significance =
                                  IF why = "significance" THEN TRUE ELSE @]
       IN  IF why = "none"
           THEN /\ pc' = [pc EXCEPT ![w] = "idle"]
                /\ sess' = [x \in DOMAIN sess \ {w} |-> sess[x]]
           ELSE /\ pc' = [pc EXCEPT ![w] = "completing"]
                /\ sess' = [sess EXCEPT ![w].pending =
                               Pending(test, CompleteTest(sig, now),
                                       CompleteAssigned(sig)
                                       \cup (IF why = "significance"
                                             THEN {"statistical_significance"}
                                             ELSE {}))]
    /\ ret' = NoRet
    /\ UNCHANGED <<db, now, routed, fed>>
    /\ UNCHANGED monVars

\* line 559: the commit of _complete_test
record_result_complete(w) ==
    /\ pc[w] = "completing"
    /\ db' = [db EXCEPT ![sess[w].test_id] = Flush(@, sess[w].pending)]
    /\ pc' = [pc EXCEPT ![w] = "idle"]
    /\ sess' = [x \in DOMAIN sess \ {w} |-> sess[x]]
    /\ ret' = NoRet
    /\ UNCHANGED <<now, routed, fed>>
    /\ UNCHANGED monVars

\* ------------------------------------------------------------------ system
\* The whole API called by one request worker at a time; results are recorded
\* for one metric with one value, which routing and the lifecycle do not read.
Next ==
    \/ Tick
    \/ \E split \in Splits, maxdays \in MaxDurations :
          create_ab_test(split, 1, maxdays)
    \/ \E t \in CallTestIds, r \in RequestIds : route_prediction(t, r)
    \/ \E t \in CallTestIds : pause_test(t)
    \/ \E t \in CallTestIds : resume_test(t)
    \/ \E t \in CallTestIds : cancel_test(t)
    \/ \E w \in SeqWorkers, t \in CallTestIds : record_result_not_found(w, t)
    \/ \E w \in SeqWorkers, t \in CallTestIds, m \in Models :
          record_result_load(w, t, m, "accuracy", 3)
    \/ \E w \in SeqWorkers : record_result_commit(w)
    \/ \E w \in SeqWorkers : record_result_check(w)
    \/ \E w \in SeqWorkers : record_result_complete(w)

Spec == Init /\ [][Next]_vars

\* The evaluator under every metric name and value, one request worker.
NextEval ==
    \/ Tick
    \/ \E minsize \in MinSizes, maxdays \in MaxDurations :
          create_ab_test(500, minsize, maxdays)
    \/ \E t \in CallTestIds : pause_test(t)
    \/ \E t \in CallTestIds : resume_test(t)
    \/ \E t \in CallTestIds : cancel_test(t)
    \/ \E w \in SeqWorkers, t \in CallTestIds : record_result_not_found(w, t)
    \/ \E w \in SeqWorkers, t \in CallTestIds, m \in Models,
          n \in MetricNames, v \in Values : record_result_load(w, t, m, n, v)
    \/ \E w \in SeqWorkers : record_result_commit(w)
    \/ \E w \in SeqWorkers : record_result_check(w)
    \/ \E w \in SeqWorkers : record_result_complete(w)

SpecEval == Init /\ [][NextEval]_vars

\* Concurrent request workers, each in a session and transaction of its own.
NextConc ==
    \/ Tick
    \/ \E maxdays \in MaxDurations : create_ab_test(500, 1, maxdays)
    \/ \E t \in CallTestIds : pause_test(t)
    \/ \E t \in CallTestIds : resume_test(t)
    \/ \E t \in CallTestIds : cancel_test(t)
    \/ \E w \in Workers, t \in CallTestIds : record_result_not_found(w, t)
    \/ \E w \in Workers, t \in CallTestIds, m \in Models :
          record_result_load(w, t, m, "accuracy", 3)
    \/ \E w \in Workers : record_result_commit(w)
    \/ \E w \in Workers : record_result_check(w)
    \/ \E w \in Workers : record_result_complete(w)

SpecConc == Init /\ [][NextConc]_vars

\* The router under every traffic_split a caller can pass to create_ab_test:
\* inside [0, 1] on and off the hundredths, and outside it.
CreateSplits == {0 - 100, 0, 5, 265, 500, 995, 1000, 1500}

NextRoute ==
    \/ \E split \in CreateSplits, maxdays \in MaxDurations :
          create_ab_test(split, 1, maxdays)
    \/ \E t \in CallTestIds, r \in RequestIds : route_prediction(t, r)
    \/ \E t \in CallTestIds : pause_test(t)
    \/ \E t \in CallTestIds : resume_test(t)
    \/ \E t \in CallTestIds : cancel_test(t)

SpecRoute == Init /\ [][NextRoute]_vars

\* Two experiments side by side, created two days ago, each with one champion
\* result recorded and both old enough to complete by duration; one request
\* worker per experiment records results, the two concurrently, while the
\* other calls interleave.
PairResults  == 4                     \* results recorded for the two experiments in all
PairIds      == {1, 2}
PairCallIds  == PairIds \cup (CallTestIds \ TestIds)   \* and an id that never exists
PairModels   == {ChampionModel, ChallengerModel}
PairRequests == {"req-0"}
PairWorker   == <<"w1", "w2">>        \* the worker serving the requests of each experiment

InitPair ==
    /\ db = << Recorded(ABTest(500, 1, 1, 0), ChampionModel, "accuracy", 3),
               Recorded(ABTest(1000, 1, 1, 0), ChampionModel, "accuracy", 3) >>
    /\ now = 2
    /\ pc = [w \in Workers |-> "idle"]
    /\ sess = <<>>
    /\ ret = NoRet
    /\ routed = [t \in PairIds |-> [r \in PairRequests |-> {}]]
    /\ fed = [t \in PairIds |-> [champion |-> << <<"accuracy", 3>> >>, challenger |-> <<>>]]
    /\ utc = 0
    /\ alert_history = <<>>
    /\ active_alerts = <<>>
    /\ last = [op |-> "none"]
    /\ predictions = <<>>
    /\ model_alerts = <<>>
    /\ model_metrics = <<>>
    /\ drift_detections = <<>>

NextPair ==
    \/ \E t \in PairIds, r \in PairRequests : route_prediction(t, r)
    \/ \E t \in PairCallIds : pause_test(t)
    \/ \E t \in PairCallIds : resume_test(t)
    \/ \E t \in PairCallIds : cancel_test(t)
    \/ \E t \in PairIds, m \in PairModels :
          /\ Len(fed[1].champion) + Len(fed[1].challenger)
                + Len(fed[2].champion) + Len(fed[2].challenger) < PairResults
          /\ record_result_load(PairWorker[t], t, m, "accuracy", 3)
    \/ \E w \in Workers : record_result_commit(w)
    \/ \E w \in Workers : record_result_check(w)
    \/ \E w \in Workers : record_result_complete(w)

SpecPair == InitPair /\ [][NextPair]_vars

\* An experiment that holds one result of each variant, recorded by two calls
\* on the day it was created (the second call stored its count alone), and
\* that from then on is sent results of a model that is neither its champion
\* nor its challenger, while the clock runs and the other calls interleave.
InitOther ==
    /\ db = << [Recorded(ABTest(500, 1, 1, 0), ChampionModel, "accuracy", 3)
                  EXCEPT !.challenger_samples = 1] >>
    /\ now = 0
    /\ pc = [w \in Workers |-> "idle"]
    /\ sess = <<>>
    /\ ret = NoRet
    /\ routed = [t \in TestIds |-> [r \in RequestIds |-> {}]]
    /\ fed = [t \in TestIds |-> [champion   |-> << <<"accuracy", 3>> >>,
                                  challenger |-> << <<"accuracy", 3>> >>]]
    /\ utc = 0
    /\ alert_history = <<>>
    /\ active_alerts = <<>>
    /\ last = [op |-> "none"]
    /\ predictions = <<>>
    /\ model_alerts = <<>>
    /\ model_metrics = <<>>
    /\ drift_detections = <<>>

NextOther ==
    \/ Tick
    \/ \E t \in TestIds, r \in RequestIds : route_prediction(t, r)
    \/ \E t \in TestIds : pause_test(t)
    \/ \E t \in TestIds : resume_test(t)
    \/ \E t \in TestIds : cancel_test(t)
    \/ \E w \in SeqWorkers, t \in TestIds :
          record_result_load(w, t, OtherModel, "accuracy", 3)
    \/ \E w \in SeqWorkers : record_result_commit(w)
    \/ \E w \in SeqWorkers : record_result_check(w)
    \/ \E w \in SeqWorkers : record_result_complete(w)

SpecOther == InitOther /\ [][NextOther]_vars

\* ======================================================= AlertManager
\* production_monitoring.py, class AlertManager: an in-memory object holding
\* alert_rules, active_alerts and alert_history.  Times are minutes; metric
\* values are hundredths (error_rate, confidence.mean) and milliseconds.
MaxAlertTicks == 2          \* evaluation cycles the alert clock runs over
EvalPeriods   == {5}        \* minutes between two evaluation cycles

\* _initialize_alert_rules, in the order of the dict
RuleOrder ==
    <<"high_error_rate", "slow_response_time", "low_confidence", "drift_detected">>

RuleNames == {RuleOrder[i] : i \in DOMAIN RuleOrder}

AlertRules ==
    [ high_error_rate    |-> [ metric |-> <<"error_rate">>, threshold |-> 5,
                               comparison |-> "greater", severity |-> "high",
                               cooldown_minutes |-> 15 ],
      slow_response_time |-> [ metric |-> <<"response_time", "p95">>, threshold |-> 2000,
                               comparison |-> "greater", severity |-> "medium",
                               cooldown_minutes |-> 10 ],
      low_confidence     |-> [ metric |-> <<"confidence", "mean">>, threshold |-> 75,
                               comparison |-> "less", severity |-> "medium",
                               cooldown_minutes |-> 30 ],
      drift_detected     |-> [ metric |-> <<"drift", "detected">>, threshold |-> 1,
                               comparison |-> "equals", severity |-> "high",
                               cooldown_minutes |-> 60 ] ]

\* the metrics dicts evaluate_alerts is called with: every value at its
\* threshold, every value just beyond it, and a dict without the nested keys
MetricsInputs ==
    { [ error_rate |-> 5, response_time |-> [p95 |-> 2000], confidence |-> [mean |-> 75] ],
      [ error_rate |-> 6, response_time |-> [p95 |-> 2001], confidence |-> [mean |-> 74] ],
      [ error_rate |-> 6 ] }

\* drift_result: None, the dict of DriftDetector.check_drift, or a dict
\* without the key drift_detected
DriftResults ==
    { [ none |-> TRUE,  drift_detected |-> FALSE ],
      [ none |-> FALSE, drift_detected |-> FALSE ],
      [ none |-> FALSE, drift_detected |-> TRUE ],
      [ none |-> FALSE ] }

\* lines 382-388 and 415-419: walk the metric path through the nested dicts
MetricLookup(metrics, path) ==
    IF path[1] \notin DOMAIN metrics
    THEN [found |-> FALSE, value |-> 0]
    ELSE IF Len(path) = 1
    THEN [found |-> TRUE, value |-> metrics[path[1]]]
    ELSE IF path[2] \in DOMAIN metrics[path[1]]
    THEN [found |-> TRUE, value |-> metrics[path[1]][path[2]]]
    ELSE [found |-> FALSE, value |-> 0]

\* Variant: the drift rule is compared like a numeric rule, against the value
\* at drift.detected of the metrics.
CheckThreshold_NoDriftBranch(rule, metrics, drift_result) ==
    LET v == MetricLookup(metrics, rule.metric)
    IN  /\ v.found
        /\ CASE rule.comparison = "greater" -> v.value > rule.threshold
             [] rule.comparison = "less"    -> v.value < rule.threshold
             [] rule.comparison = "equals"  -> v.value = rule.threshold
             [] OTHER                       -> FALSE

\* _check_threshold
CheckThreshold(rule, metrics, drift_result) ==
    IF rule.metric[1] = "drift"
    THEN /\ ~drift_result.none
         /\ "drift_detected" \in DOMAIN drift_result
         /\ drift_result.drift_detected
    ELSE LET v == MetricLookup(metrics, rule.metric)
         IN  /\ v.found
             /\ CASE rule.comparison = "greater" -> v.value > rule.threshold
                  [] rule.comparison = "less"    -> v.value < rule.threshold
                  [] rule.comparison = "equals"  -> v.value = rule.threshold
                  [] OTHER                       -> FALSE

AlertId_NoTimestamp(rule_name, t) == <<rule_name, 0>>

\* line 412: f"{rule_name}_{utcnow:%Y%m%d%H%M%S}"
AlertId(rule_name, t) == <<rule_name, t>>

\* Variant: every alert of the history counts for every rule.
IdNamesRule_AnyRule(alert_id, rule_name) == TRUE

\* line 443, `rule_name in a.alert_id`: no rule name is part of another rule
\* name or of a timestamp
IdNamesRule(alert_id, rule_name) == alert_id[1] = rule_name

\* _create_alert
CreateAlert(rule_name, metrics, t) ==
    [ alert_id      |-> AlertId(rule_name, t),
      severity      |-> AlertRules[rule_name].severity,
      metric_name   |-> AlertRules[rule_name].metric,
      current_value |-> MetricLookup(metrics, AlertRules[rule_name].metric).value,
      timestamp     |-> t,
      acknowledged  |-> FALSE ]

MaxOf(S) == CHOOSE x \in S : \A y \in S : y <= x

IsInCooldown_Oldest(history, rule_name, t) ==
    LET recent == { i \in DOMAIN history : IdNamesRule(history[i].alert_id, rule_name) }
    IN  /\ recent # {}
        /\ \A i \in recent :
              t - history[i].timestamp < AlertRules[rule_name].cooldown_minutes

\* _is_in_cooldown
IsInCooldown(history, rule_name, t) ==
    LET recent == { i \in DOMAIN history : IdNamesRule(history[i].alert_id, rule_name) }
    IN  /\ recent # {}
        /\ t - MaxOf({ history[i].timestamp : i \in recent })
              < AlertRules[rule_name].cooldown_minutes

\* lines 347-363: the loop of evaluate_alerts from rule number i on, over the
\* manager state am = [history, active, new]
RECURSIVE EvaluateFrom(_, _, _, _, _)
EvaluateFrom(i, am, metrics, drift_result, t) ==
    IF i > Len(RuleOrder) THEN am
    ELSE LET rule_name == RuleOrder[i]
             fires     == /\ ~IsInCooldown(am.history, rule_name, t)
                          /\ CheckThreshold(AlertRules[rule_name], metrics, drift_result)
             alert     == CreateAlert(rule_name, metrics, t)
             next      == IF fires
                          THEN [ history |-> Append(am.history, alert),
                                 active  |-> (alert.alert_id :> (Len(am.history) + 1))
                                                @@ am.active,
                                 new     |-> Append(am.new, alert.alert_id) ]
                          ELSE am
         IN  EvaluateFrom(i + 1, next, metrics, drift_result, t)

\* the manager as the loop leaves it, and the list evaluate_alerts returns
StoreEvaluation(am, metrics, drift_result) ==
    /\ alert_history' = am.history
    /\ active_alerts' = am.active
    /\ last' = [op |-> "evaluate_alerts", metrics |-> metrics,
                drift_result |-> drift_result, new |-> am.new]
    /\ UNCHANGED utc
    /\ UNCHANGED <<abVars, tableVars>>

evaluate_alerts(metrics, drift_result) ==
    StoreEvaluation(EvaluateFrom(1, [history |-> alert_history, active |-> active_alerts,
                                     new |-> <<>>], metrics, drift_result, utc),
                    metrics, drift_result)

acknowledge_alert(alert_id) ==
    /\ alert_history' = IF alert_id \in DOMAIN active_alerts
                        THEN [alert_history EXCEPT
                                 ![active_alerts[alert_id]].acknowledged = TRUE]
                        ELSE alert_history
    /\ last' = [op |-> "acknowledge_alert", alert_id |-> alert_id]
    /\ UNCHANGED <<utc, active_alerts>>
    /\ UNCHANGED <<abVars, tableVars>>

\* get_active_alerts
get_active_alerts ==
    { alert_history[active_alerts[id]] : id \in
          { x \in DOMAIN active_alerts : ~alert_history[active_alerts[x]].acknowledged } }

\* the time between two evaluation cycles passes
TickAlert(d) ==
    /\ utc + d <= MaxAlertTicks * d
    /\ utc' = utc + d
    /\ last' = [op |-> "tick"]
    /\ UNCHANGED <<alert_history, active_alerts>>
    /\ UNCHANGED <<abVars, tableVars>>

\* the ids an operator may name: those issued, and one never issued
AckIds == DOMAIN active_alerts \cup { <<"unknown", 0>> }

NextAlert ==
    \/ \E d \in EvalPeriods : TickAlert(d)
    \/ \E m \in MetricsInputs, dr \in DriftResults : evaluate_alerts(m, dr)
    \/ \E id \in AckIds : acknowledge_alert(id)

SpecAlert == Init /\ [][NextAlert]_vars

\* ============================================== ModelMonitoringService
\* model_monitoring_service.py: log_prediction inserts into model_predictions
\* (and model_alerts), calculate_aggregated_metrics reads model_predictions
\* and inserts into model_metrics.  Timestamps are minutes counted from the
\* start of an hour (and of a day); confidence and accuracy are hundredths.
\* Of the statistics of a ModelMetric row the model keeps metric_value (the
\* mean, as num/den), min_value, max_value and sample_count.
MaxWindowTicks == 2          \* clock steps of the aggregation runs
MaxPredictions == 2          \* rows log_prediction inserts
MaxMetricRows  == 6          \* rows calculate_aggregated_metrics inserts

WindowTickMinutes  == {40}
ModelNames         == {"ocr", "ner"}
ModelVersions      == {"v1", "v2"}
LoggedModels       == {<<"ocr", "v1">>, <<"ocr", "v2">>}   \* "ner" is never logged
WindowSizes        == {30, 45, 120}     \* window_size_minutes
LookbackHours      == {1}

NoScore == 0 - 1                        \* confidence_score IS NULL
NoValue == 0 - 1                        \* min_value / max_value IS NULL
NoTruth == <<>>                         \* ground_truth None (or {}), is_correct None (or {})
NotANumber == 0 - 2                     \* float('nan'), which a Float column stores

\* the prediction dict every call passes
PredictionOutput == [drug |-> "a"]

\* (confidence_score, latency_ms, ground_truth) of the log_prediction calls
Payloads ==
    { [ confidence_score |-> 90,      latency_ms |-> 100,  ground_truth |-> NoTruth ],
      [ confidence_score |-> NoScore, latency_ms |-> 2500, ground_truth |-> [drug |-> "a"] ] }

\* calls that log a latency that is not a number next to well-formed ones
BatchPayloads ==
    { [ confidence_score |-> 90, latency_ms |-> 100,        ground_truth |-> NoTruth ],
      [ confidence_score |-> 90, latency_ms |-> NotANumber, ground_truth |-> NoTruth ] }

\* _calculate_correctness
CalculateCorrectness(prediction, ground_truth) ==
    [ key \in DOMAIN ground_truth \cap DOMAIN prediction |->
          prediction[key] = ground_truth[key] ]

\* lines 186-203: the row log_prediction builds
ModelPrediction(model_name, model_version, payload, t) ==
    [ model_name       |-> model_name,
      model_version    |-> model_version,
      confidence_score |-> payload.confidence_score,
      latency_ms       |-> payload.latency_ms,
      ground_truth     |-> payload.ground_truth,
      is_correct       |-> IF payload.ground_truth # NoTruth
                           THEN CalculateCorrectness(PredictionOutput, payload.ground_truth)
                           ELSE NoTruth,
      timestamp        |-> t ]

\* create_alert: the row it inserts
ModelAlert(prediction, alert_type) ==
    [ model_name    |-> prediction.model_name,
      model_version |-> prediction.model_version,
      alert_type    |-> alert_type,
      severity      |-> "WARNING",
      status        |-> "OPEN" ]

\* _check_realtime_alerts: the alerts a prediction raises (thresholds 0.80, 2000)
RealtimeAlerts(prediction) ==
    (IF prediction.confidence_score # NoScore /\ prediction.confidence_score # 0
        /\ prediction.confidence_score < 80
     THEN <<ModelAlert(prediction, "LOW_CONFIDENCE")>> ELSE <<>>)
    \o (IF prediction.latency_ms > 2000
        THEN <<ModelAlert(prediction, "HIGH_LATENCY")>> ELSE <<>>)

log_prediction(model_name, model_version, payload) ==
    LET pred_record == ModelPrediction(model_name, model_version, payload, utc)
    IN  /\ Len(predictions) < MaxPredictions
        /\ predictions' = Append(predictions, pred_record)
        /\ model_alerts' = model_alerts \o RealtimeAlerts(pred_record)
        /\ last' = [op |-> "log_prediction", raised |-> FALSE]
        /\ UNCHANGED <<utc, alert_history, active_alerts, model_metrics, drift_detections>>
        /\ UNCHANGED abVars

WindowStart_NextWindow(timestamp, window_size_minutes) ==
    (timestamp \div 60) * 60
        + (((timestamp % 60) \div window_size_minutes) + 1) * window_size_minutes

\* lines 314-318: timestamp.replace(minute=(minute // size) * size, second=0, ...)
WindowStart(timestamp, window_size_minutes) ==
    (timestamp \div 60) * 60
        + ((timestamp % 60) \div window_size_minutes) * window_size_minutes

\* lines 269-275: the rows the query returns (positions in the table)
SelectPredictions(model_name, lookback_hours, t) ==
    { i \in DOMAIN predictions :
          /\ predictions[i].model_name = model_name
          /\ predictions[i].timestamp >= t - 60 * lookback_hours }

\* _group_into_windows: window_start -> the rows of the bucket
GroupIntoWindows(rows, window_size_minutes) ==
    [ s \in { WindowStart(predictions[i].timestamp, window_size_minutes) : i \in rows } |->
          { i \in rows : WindowStart(predictions[i].timestamp, window_size_minutes) = s } ]

RECURSIVE SumOver(_, _)
SumOver(S, f) ==
    IF S = {} THEN 0
    ELSE LET x == CHOOSE y \in S : TRUE IN f[x] + SumOver(S \ {x}, f)

MinOf(S) == CHOOSE x \in S : \A y \in S : x <= y

\* lines 353 and 370: statistics.stdev raises (AttributeError) on two or more
\* values of which one is nan
StdevRaises(vals) ==
    /\ Cardinality(DOMAIN vals) > 1
    /\ \E i \in DOMAIN vals : vals[i] = NotANumber

\* statistics.mean, min and max of a single nan are nan
HasNan(vals) == \E i \in DOMAIN vals : vals[i] = NotANumber

\* a ModelMetric row over the values vals (row position -> value) of a bucket
ModelMetric(model_name, model_version, window_start, window_end, window_size_minutes, metric_type, vals) ==
    [ model_name          |-> model_name,
      model_version       |-> model_version,
      window_start        |-> window_start,
      window_end          |-> window_end,
      window_size_minutes |-> window_size_minutes,
      metric_type         |-> metric_type,
      metric_value        |-> IF HasNan(vals) THEN [num |-> NotANumber, den |-> 1]
                              ELSE [num |-> SumOver(DOMAIN vals, vals),
                                    den |-> Cardinality(DOMAIN vals)],
      min_value           |-> IF HasNan(vals) THEN NotANumber
                              ELSE MinOf({vals[i] : i \in DOMAIN vals}),
      max_value           |-> IF HasNan(vals) THEN NotANumber
                              ELSE MaxOf({vals[i] : i \in DOMAIN vals}),
      sample_count        |-> Cardinality(DOMAIN vals) ]

\* line 338: the versions max(set(...), key=count) can return; among equally
\* common versions the iteration order of the set decides
MostCommonVersions(bucket) ==
    LET count(v) == Cardinality({ i \in bucket : predictions[i].model_version = v })
    IN  { v \in { predictions[i].model_version : i \in bucket } :
              \A u \in { predictions[i].model_version : i \in bucket } :
                  count(u) <= count(v) }

ConfidenceMetric_ZeroFilled(model_name, model_version, bucket, window_start, window_end, window_size_minutes) ==
    LET confidences == [ i \in { j \in bucket : predictions[j].confidence_score # NoScore } |->
                             predictions[i].confidence_score ]
    IN  IF DOMAIN confidences # {}
        THEN << ModelMetric(model_name, model_version, window_start, window_end,
                            window_size_minutes, "confidence", confidences) >>
        ELSE << [ ModelMetric(model_name, model_version, window_start, window_end,
                              window_size_minutes, "confidence", [i \in bucket |-> 0])
                  EXCEPT !.sample_count = 0 ] >>

\* lines 340-356: the confidence row, if some prediction has a confidence
ConfidenceMetric(model_name, model_version, bucket, window_start, window_end, window_size_minutes) ==
    LET confidences == [ i \in { j \in bucket : predictions[j].confidence_score # NoScore } |->
                             predictions[i].confidence_score ]
    IN  IF DOMAIN confidences # {}
        THEN << ModelMetric(model_name, model_version, window_start, window_end,
                            window_size_minutes, "confidence", confidences) >>
        ELSE << >>

\* lines 358-373: the latency row
LatencyMetric(model_name, model_version, bucket, window_start, window_end, window_size_minutes) ==
    << ModelMetric(model_name, model_version, window_start, window_end,
                   window_size_minutes, "latency",
                   [ i \in bucket |-> predictions[i].latency_ms ]) >>

\* lines 375-399: the accuracy row, if some prediction has ground truth and a
\* non-empty is_correct; a value is the share of correct fields
AccuracyMetric(model_name, model_version, bucket, window_start, window_end, window_size_minutes) ==
    LET correct(i) == Cardinality({ k \in DOMAIN predictions[i].is_correct :
                                        predictions[i].is_correct[k] })
        correct_counts ==
            [ i \in { j \in bucket : /\ predictions[j].ground_truth # NoTruth
                                     /\ predictions[j].is_correct # NoTruth } |->
                  (100 * correct(i)) \div Cardinality(DOMAIN predictions[i].is_correct) ]
    IN  IF DOMAIN correct_counts # {}
        THEN << ModelMetric(model_name, model_version, window_start, window_end,
                            window_size_minutes, "accuracy", correct_counts) >>
        ELSE << >>

\* lines 401-412: the throughput row, predictions per hour
ThroughputMetric(model_name, model_version, bucket, window_start, window_end, window_size_minutes) ==
    << [ model_name          |-> model_name,
         model_version       |-> model_version,
         window_start        |-> window_start,
         window_end          |-> window_end,
         window_size_minutes |-> window_size_minutes,
         metric_type         |-> "throughput",
         metric_value        |-> [num |-> 60 * Cardinality(bucket),
                                  den |-> window_size_minutes],
         min_value           |-> NoValue,
         max_value           |-> NoValue,
         sample_count        |-> Cardinality(bucket) ] >>

\* _calculate_window_metrics, with the version line 338 picked
CalculateWindowMetrics(model_name, bucket, window_start, window_end, window_size_minutes, model_version) ==
    IF bucket = {} THEN << >>
    ELSE ConfidenceMetric(model_name, model_version, bucket, window_start,
                          window_end, window_size_minutes)
         \o LatencyMetric(model_name, model_version, bucket, window_start,
                          window_end, window_size_minutes)
         \o AccuracyMetric(model_name, model_version, bucket, window_start,
                           window_end, window_size_minutes)
         \o ThroughputMetric(model_name, model_version, bucket, window_start,
                             window_end, window_size_minutes)

\* lines 284-295: the rows of all windows, in the order of the window starts
\* (the query orders the predictions by timestamp)
RECURSIVE MetricsOfWindows(_, _, _, _, _)
MetricsOfWindows(starts, windows, model_name, window_size_minutes, version) ==
    IF starts = {} THEN << >>
    ELSE LET s == MinOf(starts)
         IN  CalculateWindowMetrics(model_name, windows[s], s, s + window_size_minutes,
                                    window_size_minutes, version[s])
             \o MetricsOfWindows(starts \ {s}, windows, model_name,
                                 window_size_minutes, version)

\* lines 297-302: db.session.add of every row, the commit and the list returned
StoreMetrics(model_name, lookback_hours, metrics) ==
    /\ Len(model_metrics) + Len(metrics) <= MaxMetricRows
    /\ model_metrics' = model_metrics \o metrics
    /\ last' = [op |-> "calculate_aggregated_metrics",
                model_name |-> model_name,
                lookback_hours |-> lookback_hours,
                returned |-> Len(metrics), raised |-> FALSE]
    /\ UNCHANGED <<utc, alert_history, active_alerts, predictions,
                   model_alerts, drift_detections>>
    /\ UNCHANGED abVars

\* the statistics of a bucket raise: the confidences or the latencies of its
\* predictions make statistics.stdev fail
WindowRaises(bucket) ==
    \/ StdevRaises([ i \in { j \in bucket : predictions[j].confidence_score # NoScore } |->
                         predictions[i].confidence_score ])
    \/ StdevRaises([ i \in bucket |-> predictions[i].latency_ms ])

\* lines 284-295 hold no try/except: the exception of one bucket leaves
\* calculate_aggregated_metrics before any row is added to the session
AggregationRaised(model_name, lookback_hours) ==
    /\ last' = [op |-> "calculate_aggregated_metrics",
                model_name |-> model_name,
                lookback_hours |-> lookback_hours,
                returned |-> 0, raised |-> TRUE]
    /\ UNCHANGED <<utc, alert_history, active_alerts, tableVars>>
    /\ UNCHANGED abVars

\* lines 284-302 over the buckets of _group_into_windows
AggregateWindows(model_name, window_size_minutes, lookback_hours, windows) ==
    IF \E s \in DOMAIN windows : WindowRaises(windows[s])
    THEN AggregationRaised(model_name, lookback_hours)
    ELSE \E version \in [DOMAIN windows -> ModelVersions] :
            /\ \A s \in DOMAIN windows : version[s] \in MostCommonVersions(windows[s])
            /\ StoreMetrics(model_name, lookback_hours,
                            MetricsOfWindows(DOMAIN windows, windows, model_name,
                                             window_size_minutes, version))

calculate_aggregated_metrics(model_name, window_size_minutes, lookback_hours) ==
    AggregateWindows(model_name, window_size_minutes, lookback_hours,
        GroupIntoWindows(SelectPredictions(model_name, lookback_hours, utc),
                         window_size_minutes))

TickWindow(d) ==
    /\ utc + d <= MaxWindowTicks * d
    /\ utc' = utc + d
    /\ last' = [op |-> "tick"]
    /\ UNCHANGED <<alert_history, active_alerts, tableVars>>
    /\ UNCHANGED abVars

NextWindow ==
    \/ \E d \in WindowTickMinutes : TickWindow(d)
    \/ \E m \in LoggedModels, p \in Payloads : log_prediction(m[1], m[2], p)
    \/ \E n \in ModelNames, ws \in WindowSizes, h \in LookbackHours :
          calculate_aggregated_metrics(n, ws, h)

SpecWindow == Init /\ [][NextWindow]_vars

\* Aggregation over a table that holds predictions whose latency is nan.
BatchModel       == <<"ocr", "v1">>
BatchWindowSizes == {30}

NextBatch ==
    \/ \E d \in WindowTickMinutes : TickWindow(d)
    \/ \E p \in BatchPayloads : log_prediction(BatchModel[1], BatchModel[2], p)
    \/ \E ws \in BatchWindowSizes, h \in LookbackHours :
          calculate_aggregated_metrics(BatchModel[1], ws, h)

SpecBatch == Init /\ [][NextBatch]_vars

\* ================================================ DriftDetectionService
\* drift_detection_service.py, class DriftDetectionService: both detectors
\* read model_predictions and insert into drift_detections.  Scores,
\* thresholds and p-values are in units of 0.0001.  MIN_SAMPLES is 100 in the
\* source; the model keeps every comparison against it and scales the number
\* to the sizes of the tables it explores.
MIN_SAMPLES   == 2          \* line 132, scaled
MaxSide       == 4          \* predictions per period in the tables explored
MaxDetections == 2          \* rows the detectors insert

DATA_DRIFT_THRESHOLD       == 500      \* 0.05
PREDICTION_DRIFT_THRESHOLD == 1000     \* 0.10
SignificantP               == 500      \* p_value < 0.05
PsiBins                    == 10       \* bins: int = 10
PsiEpsilon                 == 1        \* 0.0001

DayMinutes   == 1440
LookbackDays == {2}                    \* lookback_days argument
DriftModel   == <<"ocr", "v1">>

\* the periods detect_data_drift is called with, one as the baseline and the
\* other as the current period
DriftPeriods ==
    { [start |-> 0, end |-> DayMinutes], [start |-> DayMinutes, end |-> 2 * DayMinutes] }

\* confidence scores of the predictions in the tables explored
DriftScores == {NoScore, 20, 90}

\* how many predictions of each confidence score a period holds
Compositions ==
    { c \in [DriftScores -> 0..MaxSide] : c[NoScore] + c[20] + c[90] <= MaxSide }

Copies(n, row) == [i \in 1..n |-> row]

\* the rows log_prediction inserted at time t for composition c
LoggedAt(c, t) ==
    LET row(s) == ModelPrediction(DriftModel[1], DriftModel[2],
                      [confidence_score |-> s, latency_ms |-> 100, ground_truth |-> NoTruth], t)
    IN  Copies(c[NoScore], row(NoScore)) \o Copies(c[20], row(20)) \o Copies(c[90], row(90))

\* model_predictions after some days of ingestion: the detectors run on the
\* third day over predictions logged on the first and on the second
InitDrift ==
    /\ db = <<>>
    /\ now = 0
    /\ pc = [w \in Workers |-> "idle"]
    /\ sess = <<>>
    /\ ret = NoRet
    /\ routed = [t \in TestIds |-> [r \in RequestIds |-> {}]]
    /\ fed = [t \in TestIds |-> [champion |-> <<>>, challenger |-> <<>>]]
    /\ utc = 2 * DayMinutes
    /\ alert_history = <<>>
    /\ active_alerts = <<>>
    /\ last = [op |-> "none"]
    /\ \E early, recent \in Compositions :
          predictions = LoggedAt(early, 0) \o LoggedAt(recent, DayMinutes)
    /\ model_alerts = <<>>
    /\ model_metrics = <<>>
    /\ drift_detections = <<>>

\* the query of both detectors: positions of the rows of a model in [start, end)
PredsBetween(model_name, start, end) ==
    { i \in DOMAIN predictions :
          /\ predictions[i].model_name = model_name
          /\ predictions[i].timestamp >= start
          /\ predictions[i].timestamp < end }

\* [p.confidence_score for p in preds if p.confidence_score]: None and 0 are dropped
Confidences(preds) ==
    { i \in preds : predictions[i].confidence_score # NoScore
                    /\ predictions[i].confidence_score # 0 }

Abs(x) == IF x < 0 THEN 0 - x ELSE x

\* 1000 * ln(k)
LnMilli(k) ==
    CASE k = 1 -> 0    [] k = 2 -> 693  [] k = 3 -> 1099 [] k = 4 -> 1386
      [] k = 5 -> 1609 [] k = 6 -> 1792 [] k = 7 -> 1946 [] k = 8 -> 2079
      [] k = 9 -> 2197 [] k = 10 -> 2303 [] OTHER -> 9210

\* np.histogram over np.linspace(min_val, max_val, bins + 1): the bin of a value
BinOf(v, min_val, max_val) ==
    IF max_val = min_val \/ v = max_val THEN PsiBins - 1
    ELSE ((v - min_val) * PsiBins) \div (max_val - min_val)

\* lines 243-248: the share of a bin, a zero share replaced by 0.0001
BinPct(count, total) == IF count = 0 THEN PsiEpsilon ELSE (10000 * count) \div total

\* 1000 * ln of that share
BinLn(count, total) ==
    IF count = 0 THEN 0 - LnMilli(10000) ELSE LnMilli(count) - LnMilli(total)

\* lines 239-240, np.histogram: how many of the rows S fall into each bin
Histogram(S, min_val, max_val) ==
    [ b \in 0 .. (PsiBins - 1) |->
        Cardinality({ i \in S :
            BinOf(predictions[i].confidence_score, min_val, max_val) = b }) ]

\* lines 243-253: the shares of the bins and the sum over the bins
PsiOfHistograms(baseline_hist, current_hist, baseline_total, current_total) ==
    LET bins    == 0 .. (PsiBins - 1)
        term(b) == (BinPct(current_hist[b], current_total)
                      - BinPct(baseline_hist[b], baseline_total))
                   * (BinLn(current_hist[b], current_total)
                        - BinLn(baseline_hist[b], baseline_total))
    IN  Abs(SumOver(bins, [b \in bins |-> term(b)])) \div 1000

\* lines 236-240: both histograms over the bins from min_val to max_val
PsiOverRange(baseline, current, min_val, max_val) ==
    PsiOfHistograms(Histogram(baseline, min_val, max_val),
                    Histogram(current, min_val, max_val),
                    Cardinality(baseline), Cardinality(current))

\* _calculate_psi over two non-empty sets of rows, in units of 0.0001
CalculatePsi(baseline, current) ==
    LET vals == { predictions[i].confidence_score : i \in baseline \cup current }
    IN  PsiOverRange(baseline, current, MinOf(vals), MaxOf(vals))

\* the Kolmogorov-Smirnov distance of two non-empty sets of rows, times n*m
KsDistance(early, recent) ==
    LET val(i) == predictions[i].confidence_score
        below(S, x) == Cardinality({ i \in S : val(i) <= x })
    IN  MaxOf({ Abs(below(early, val(k)) * Cardinality(recent)
                      - below(recent, val(k)) * Cardinality(early)) :
                k \in early \cup recent })

\* the lattice paths from (i, j) to (n, m) on which the two empirical
\* distribution functions stay less than dist/(n*m) apart
RECURSIVE KsPathsInside(_, _, _, _, _)
KsPathsInside(i, j, n, m, dist) ==
    IF Abs(i * m - j * n) >= dist THEN 0
    ELSE IF i = n /\ j = m THEN 1
    ELSE (IF i < n THEN KsPathsInside(i + 1, j, n, m, dist) ELSE 0)
         + (IF j < m THEN KsPathsInside(i, j + 1, n, m, dist) ELSE 0)

\* stats.ks_2samp, exact two-sided p-value: the share of paths that get
\* dist/(n*m) apart; in units of 0.0001
KsPValue(n, m, dist) ==
    LET all == KsPathsInside(0, 0, n, m, n * m + 1)
    IN  (10000 * (all - KsPathsInside(0, 0, n, m, dist))) \div all

\* the statistic in units of 0.0001
KsStatistic(n, m, dist) == (10000 * dist) \div (n * m)

DriftDetection(model_name, model_version, drift_type, drift_score, threshold, test_statistic, p_value, baseline_samples, current_samples) ==
    [ model_name       |-> model_name,
      model_version    |-> model_version,
      drift_type       |-> drift_type,
      drift_score      |-> drift_score,
      threshold        |-> threshold,
      test_statistic   |-> test_statistic,
      p_value          |-> p_value,
      baseline_samples |-> baseline_samples,
      current_samples  |-> current_samples ]

\* the outcome of a detector call: what it adds to the table and returns
DriftOutcome(rows, result, raised) == [rows |-> rows, result |-> result, raised |-> raised]

\* lines 187-220: the decision on the PSI of the two periods
PsiOutcome(model_name, model_version, baseline_samples, current_samples, psi_score) ==
    IF psi_score > DATA_DRIFT_THRESHOLD
    THEN DriftOutcome(<< DriftDetection(model_name, model_version, "DATA_DRIFT",
                             psi_score, DATA_DRIFT_THRESHOLD, NoValue, NoValue,
                             baseline_samples, current_samples) >>, "detected", FALSE)
    ELSE DriftOutcome(<<>>, "none", FALSE)

\* lines 176-185 over the rows of the two periods and their confidence values
DataDriftOver(model_name, model_version, baseline_preds, current_preds, baseline_confidences, current_confidences) ==
    IF Cardinality(baseline_preds) < MIN_SAMPLES
       \/ Cardinality(current_preds) < MIN_SAMPLES
    THEN DriftOutcome(<<>>, "none", FALSE)
    ELSE IF baseline_confidences = {} \/ current_confidences = {}
    THEN DriftOutcome(<<>>, "none", TRUE)      \* min() of an empty list
    ELSE PsiOutcome(model_name, model_version,
                    Cardinality(baseline_preds), Cardinality(current_preds),
                    CalculatePsi(baseline_confidences, current_confidences))

\* lines 163-220
DataDriftOutcome(model_name, model_version, baseline, current) ==
    DataDriftOver(model_name, model_version,
        PredsBetween(model_name, baseline.start, baseline.end),
        PredsBetween(model_name, current.start, current.end),
        Confidences(PredsBetween(model_name, baseline.start, baseline.end)),
        Confidences(PredsBetween(model_name, current.start, current.end)))

PredictionDriftEmitted_IgnoresPValue(statistic, p_value) ==
    statistic > PREDICTION_DRIFT_THRESHOLD

\* lines 303-307
PredictionDriftEmitted(statistic, p_value) ==
    p_value < SignificantP /\ statistic > PREDICTION_DRIFT_THRESHOLD

\* lines 303-341: the decision on the KS statistic and its p-value
KsOutcome(model_name, model_version, baseline_samples, current_samples, statistic, p_value) ==
    IF PredictionDriftEmitted(statistic, p_value)
    THEN DriftOutcome(<< DriftDetection(model_name, model_version, "PREDICTION_DRIFT",
                             statistic, PREDICTION_DRIFT_THRESHOLD, statistic, p_value,
                             baseline_samples, current_samples) >>, "detected", FALSE)
    ELSE DriftOutcome(<<>>, "none", FALSE)

\* line 300, stats.ks_2samp over n and m values that are dist/(n*m) apart
KsTest(model_name, model_version, baseline_samples, current_samples, n, m, dist) ==
    KsOutcome(model_name, model_version, baseline_samples, current_samples,
              KsStatistic(n, m, dist), KsPValue(n, m, dist))

\* lines 292-300 over the rows of the two halves and their confidence values
PredictionDriftOver(model_name, model_version, early_preds, recent_preds, early_confidences, recent_confidences) ==
    IF Cardinality(early_preds) < MIN_SAMPLES
       \/ Cardinality(recent_preds) < MIN_SAMPLES
    THEN DriftOutcome(<<>>, "none", FALSE)
    ELSE IF early_confidences = {} \/ recent_confidences = {}
    THEN DriftOutcome(<<>>, "none", TRUE)      \* ks_2samp rejects empty data
    ELSE KsTest(model_name, model_version,
                Cardinality(early_preds), Cardinality(recent_preds),
                Cardinality(early_confidences), Cardinality(recent_confidences),
                KsDistance(early_confidences, recent_confidences))

\* lines 275-341
PredictionDriftOutcome(model_name, model_version, lookback_days, t) ==
    LET end_time   == t
        mid_time   == t - (DayMinutes * lookback_days) \div 2
        start_time == t - DayMinutes * lookback_days
    IN  PredictionDriftOver(model_name, model_version,
            PredsBetween(model_name, start_time, mid_time),
            PredsBetween(model_name, mid_time, end_time),
            Confidences(PredsBetween(model_name, start_time, mid_time)),
            Confidences(PredsBetween(model_name, mid_time, end_time)))

\* lines 210-220 and 330-341: db.session.add and commit of the detection, if
\* any, and the value returned
StoreDetection(op, model_name, baseline, current, out) ==
    /\ Len(drift_detections) + Len(out.rows) <= MaxDetections
    /\ drift_detections' = drift_detections \o out.rows
    /\ last' = [op |-> op, model_name |-> model_name,
                baseline |-> baseline, current |-> current,
                result |-> out.result, raised |-> out.raised]
    /\ UNCHANGED <<utc, alert_history, active_alerts, predictions,
                   model_alerts, model_metrics>>
    /\ UNCHANGED abVars

detect_data_drift(model_name, model_version, baseline, current) ==
    StoreDetection("detect_data_drift", model_name, baseline, current,
                   DataDriftOutcome(model_name, model_version, baseline, current))

detect_prediction_drift(model_name, model_version, lookback_days) ==
    StoreDetection("detect_prediction_drift", model_name,
                   [start |-> utc - DayMinutes * lookback_days,
                    end |-> utc - (DayMinutes * lookback_days) \div 2],
                   [start |-> utc - (DayMinutes * lookback_days) \div 2, end |-> utc],
                   PredictionDriftOutcome(model_name, model_version, lookback_days, utc))

NextDrift ==
    \/ \E b, c \in DriftPeriods :
          b # c /\ detect_data_drift(DriftModel[1], DriftModel[2], b, c)
    \/ \E d \in LookbackDays : detect_prediction_drift(DriftModel[1], DriftModel[2], d)

SpecDrift == InitDrift /\ [][NextDrift]_vars

\* ================================================================= claims
\* the values recorded for metric m in a history of record_result calls
FedSeries(calls, m) ==
    LET IsM(e) == e[1] = m
        sel    == SelectSeq(calls, IsM)
    IN  [i \in 1..Len(sel) |-> sel[i][2]]

\* a step in which worker w leaves position p
Leaves(w, p) == pc[w] = p /\ pc'[w] # p

\* C1: for every experiment and request_id, all route calls that returned a
\* variant returned the same one, whatever record_result, pause, resume,
\* cancel or route calls happened in between (traffic_split is never changed
\* by any operation).
C1_RouteDeterministic ==
    \A t \in TestIds, r \in RequestIds : Cardinality(routed[t][r]) <= 1

\* a request routed again after results were recorded for the experiment
C1_Witness ==
    /\ ret.op = "route"
    /\ ret.result # "error"
    /\ routed[ret.test_id][ret.request_id] = {ret.result}
    /\ db[ret.test_id].champion_samples > 0
    /\ db[ret.test_id].challenger_samples > 0

\* C2: COMPLETED and CANCELLED are terminal, and the only status changes are
\* RUNNING->PAUSED, PAUSED->RUNNING, RUNNING->COMPLETED and
\* RUNNING/PAUSED->CANCELLED.
C2_TerminalStatus ==
    [][\A t \in DOMAIN db :
          db'[t].status # db[t].status =>
              <<db[t].status, db'[t].status>> \in
                  { <<RUNNING, PAUSED>>, <<PAUSED, RUNNING>>, <<RUNNING, COMPLETED>>,
                    <<RUNNING, CANCELLED>>, <<PAUSED, CANCELLED>> }]_vars

\* C3: a record_result call that finds the experiment not RUNNING fails: its
\* commit leaves the experiment's row (sample counts, metric series, status,
\* winner, significance flag, completed_at) unchanged.
C3_RecordRejectedWhenNotRunning ==
    [][\A w \in Workers :
          (Leaves(w, "loaded") /\ sess[w].status # RUNNING)
              => db'[sess[w].test_id] = db[sess[w].test_id]]_vars

\* C4: route on an experiment that does not exist or is not RUNNING returns
\* the error and no variant, and a route call changes no experiment.
C4_RouteRejectsInactive ==
    [][ret'.op = "route" =>
          /\ db' = db
          /\ (ret'.test_id \notin DOMAIN db \/ db[ret'.test_id].status # RUNNING)
                => ret'.result = "error"]_vars

\* route refused on a completed experiment
C4_Witness ==
    /\ ret.op = "route"
    /\ ret.result = "error"
    /\ ret.test_id \in DOMAIN db
    /\ db[ret.test_id].status = COMPLETED

AllIdle == \A w \in Workers : pc[w] = "idle"

\* the winner the row gets when the pending UPDATE of worker w is flushed
WinnerAfter(w) ==
    IF "winner" \in DOMAIN sess'[w].pending
    THEN sess'[w].pending.winner
    ELSE db[sess[w].test_id].winner

\* the check of worker w ends in _complete_test, which sets COMPLETED
Completes(w) ==
    /\ pc'[w] = "completing"
    /\ "status" \in DOMAIN sess'[w].pending
    /\ sess'[w].pending.status = COMPLETED

\* C5: record_result is atomic per experiment: once all concurrent
\* record_result calls have returned, each variant's stored sample count is
\* the number of calls made for it and its stored series of every metric holds
\* exactly the values recorded for it, in call order.
C5_NoLostUpdate ==
    AllIdle =>
        \A t \in DOMAIN db :
            /\ db[t].champion_samples = Len(fed[t].champion)
            /\ db[t].challenger_samples = Len(fed[t].challenger)
            /\ \A m \in MetricNames :
                  /\ db[t].metrics.champion[m] = FedSeries(fed[t].champion, m)
                  /\ db[t].metrics.challenger[m] = FedSeries(fed[t].challenger, m)

\* C6: the stored champion and challenger sample counts never decrease.
C6_CountsMonotone ==
    [][\A t \in DOMAIN db :
          /\ db'[t].champion_samples >= db[t].champion_samples
          /\ db'[t].challenger_samples >= db[t].challenger_samples]_vars

\* C7: completing is idempotent: the completion step of a record_result call
\* on an experiment that is already COMPLETED leaves status, winner,
\* significance flag and completed_at as the first completion set them.
C7_CompletionIdempotent ==
    [][\A w \in Workers :
          (Leaves(w, "completing") /\ db[sess[w].test_id].status = COMPLETED) =>
              LET old == db[sess[w].test_id]
                  new == db'[sess[w].test_id]
              IN  /\ new.status = old.status
                  /\ new.winner = old.winner
                  /\ new.statistical_significance = old.statistical_significance
                  /\ new.completed_at = old.completed_at]_vars

\* C8: duration is the first stopping condition: the check of a record_result
\* call on a RUNNING experiment older than max_duration completes it whatever
\* the sample counts; the winner is none if a variant is below
\* min_sample_size, else the variant with the higher accuracy mean.
C8_DurationFirst ==
    [][\A w \in Workers :
          LET test == db[sess[w].test_id]
              a    == FedSeries(fed[sess[w].test_id].champion, "accuracy")
              b    == FedSeries(fed[sess[w].test_id].challenger, "accuracy")
          IN  (/\ Leaves(w, "committed")
               /\ test.status = RUNNING
               /\ now - test.started_at > test.max_duration_days)
              => /\ Completes(w)
                 /\ IF test.champion_samples < test.min_sample_size
                       \/ test.challenger_samples < test.min_sample_size
                    THEN WinnerAfter(w) = "none"
                    ELSE /\ (a # <<>> /\ b # <<>> /\ MeanGreater(b, a))
                               => WinnerAfter(w) = "challenger"
                         /\ (a # <<>> /\ b # <<>> /\ MeanGreater(a, b))
                               => WinnerAfter(w) = "champion"]_vars

\* C9: for any metric name, when the check of a record_result call on a
\* RUNNING experiment within its duration finds both variants at or above
\* min_sample_size and the mean test on the values recorded for that metric
\* significant, the experiment is completed with statistical_significance set
\* and the variant with the higher mean of that metric as winner; and every
\* COMPLETED experiment with statistical_significance has a winner.
C9_SignificanceCompletes ==
    [][/\ \A w \in Workers, m \in MetricNames :
             LET test == db[sess[w].test_id]
                 a    == FedSeries(fed[sess[w].test_id].champion, m)
                 b    == FedSeries(fed[sess[w].test_id].challenger, m)
             IN  (/\ Leaves(w, "committed")
                  /\ test.status = RUNNING
                  /\ now - test.started_at <= test.max_duration_days
                  /\ test.champion_samples >= test.min_sample_size
                  /\ test.challenger_samples >= test.min_sample_size
                  /\ Len(a) >= test.min_sample_size
                  /\ Len(b) >= test.min_sample_size
                  /\ TTestSignificant(a, b))
                 => /\ Completes(w)
                    /\ "statistical_significance" \in DOMAIN sess'[w].pending
                    /\ WinnerAfter(w) = IF MeanGreater(b, a) THEN "challenger"
                                        ELSE "champion"
       /\ \A t \in DOMAIN db' :
             (db'[t].status = COMPLETED /\ db'[t].statistical_significance)
                 => db'[t].winner \in {"champion", "challenger"}]_vars

\* C10: the worked example, with min_sample_size results per variant: after
\* min_sample_size accuracy results for the champion and as many for the
\* challenger whose values make the mean test significant with the challenger
\* mean higher, the experiment (never paused or cancelled, within its
\* duration) is COMPLETED with winner challenger and statistical_significance;
\* and no experiment is COMPLETED before both variants had min_sample_size
\* results.
C10_ExampleCompletes ==
    \A t \in DOMAIN db :
        LET test == db[t]
            a    == FedSeries(fed[t].champion, "accuracy")
            b    == FedSeries(fed[t].challenger, "accuracy")
        IN  /\ (/\ AllIdle
                /\ test.min_sample_size > 1
                /\ Len(fed[t].champion) = test.min_sample_size
                /\ Len(fed[t].challenger) = test.min_sample_size
                /\ Len(a) = test.min_sample_size
                /\ Len(b) = test.min_sample_size
                /\ TTestSignificant(a, b)
                /\ MeanGreater(b, a)
                /\ test.status \notin {PAUSED, CANCELLED}
                /\ now - test.started_at <= test.max_duration_days)
               => /\ test.status = COMPLETED
                  /\ test.winner = "challenger"
                  /\ test.statistical_significance
            /\ test.status = COMPLETED
               => /\ Len(fed[t].champion) >= test.min_sample_size
                  /\ Len(fed[t].challenger) >= test.min_sample_size

\* C11: each record_result appends one value and adds one to the count, and
\* both are durable: after k successive record_result calls (one at a time,
\* each a load-modify-commit of its own) for a variant, the stored count of
\* the variant is k and its stored series of every metric holds the values
\* recorded for that metric, in call order.
C11_RecordDurable ==
    (\A w \in SeqWorkers : pc[w] = "idle") =>
        \A t \in DOMAIN db : \A v \in {"champion", "challenger"} :
            LET k      == Len(fed[t][v])
                stored == IF v = "champion" THEN db[t].champion_samples
                          ELSE db[t].challenger_samples
            IN  /\ stored = k
                /\ \A m \in MetricNames :
                      db[t].metrics[v][m] = FedSeries(fed[t][v], m)

\* C12: for every alert rule, two alerts created for the same rule are never
\* less than the rule's cooldown_minutes apart, whatever the metrics of the
\* evaluations in between (evaluations happen at non-decreasing times).
C12_CooldownRespected ==
    \A i, j \in DOMAIN alert_history :
        LET a == alert_history[i]
            b == alert_history[j]
        IN  \A r \in RuleNames :
                (i < j /\ IdNamesRule(a.alert_id, r) /\ IdNamesRule(b.alert_id, r))
                    => b.timestamp - a.timestamp >= AlertRules[r].cooldown_minutes

\* an evaluation five minutes after a high_error_rate alert, with the error
\* rate still above its threshold, that created no alert
C12_Witness ==
    /\ last.op = "evaluate_alerts"
    /\ last.new = <<>>
    /\ CheckThreshold(AlertRules["high_error_rate"], last.metrics, last.drift_result)
    /\ \E i \in DOMAIN alert_history :
          /\ IdNamesRule(alert_history[i].alert_id, "high_error_rate")
          /\ utc - alert_history[i].timestamp = 5

\* C13: the alert manager never resolves, acknowledges, removes or replaces
\* an existing alert on its own: every step keeps every alert of the history
\* and of active_alerts as it was, except that acknowledge_alert naming an
\* alert sets the acknowledged field of that alert.
C13_AlertsOnlyAdded ==
    [][/\ Len(alert_history') >= Len(alert_history)
       /\ \A i \in DOMAIN alert_history :
              \/ alert_history'[i] = alert_history[i]
              \/ /\ last'.op = "acknowledge_alert"
                 /\ last'.alert_id = alert_history[i].alert_id
                 /\ alert_history'[i] = [alert_history[i] EXCEPT !.acknowledged = TRUE]
       /\ \A id \in DOMAIN active_alerts :
              /\ id \in DOMAIN active_alerts'
              /\ active_alerts'[id] = active_alerts[id]]_vars

\* an evaluation that created a second alert for a rule whose first alert is
\* still unacknowledged and active
C13_Witness ==
    /\ last.op = "evaluate_alerts"
    /\ \E i, j \in DOMAIN alert_history :
          /\ i < j
          /\ alert_history[i].alert_id[1] = alert_history[j].alert_id[1]
          /\ alert_history[j].timestamp = utc
          /\ alert_history[i] \in get_active_alerts
          /\ alert_history[j] \in get_active_alerts

\* a step of calculate_aggregated_metrics
IsAggregation == last'.op = "calculate_aggregated_metrics"

\* the positions of the rows a step added to model_metrics
NewMetrics == (Len(model_metrics) + 1) .. Len(model_metrics')

\* the predictions of a model inside the lookback of a run at the current time
InLookback(model_name, lookback_hours) ==
    { i \in DOMAIN predictions :
          /\ predictions[i].model_name = model_name
          /\ utc - predictions[i].timestamp <= 60 * lookback_hours }

\* C14: aggregation is idempotent: model_metrics never holds two rows for one
\* (model, window_start, window size, metric type); a second run over the same
\* predictions overwrites rather than adds rows.
C14_OneRowPerKey ==
    \A i, j \in DOMAIN model_metrics :
        (/\ model_metrics[i].model_name = model_metrics[j].model_name
         /\ model_metrics[i].window_start = model_metrics[j].window_start
         /\ model_metrics[i].window_size_minutes = model_metrics[j].window_size_minutes
         /\ model_metrics[i].metric_type = model_metrics[j].metric_type)
            => i = j

\* C15: for every positive window size, a run places each prediction in
\* exactly one bucket whose start is the timestamp truncated down to a
\* multiple of window_size minutes; the bucket's [window_start, window_end)
\* contains the timestamp, window_end is after window_start, and the windows
\* of two distinct buckets of the run do not overlap.
C15_WindowsPartition ==
    [][IsAggregation =>
          LET new == { j \in NewMetrics : model_metrics'[j].metric_type = "latency" }
              sel == InLookback(last'.model_name, last'.lookback_hours)
              row(j) == model_metrics'[j]
          IN  /\ \A i \in sel :
                    LET ts == predictions[i].timestamp
                    IN  \E j \in new :
                            /\ row(j).window_start =
                                   (ts \div row(j).window_size_minutes)
                                       * row(j).window_size_minutes
                            /\ row(j).window_start <= ts
                            /\ ts < row(j).window_end
              /\ SumOver(new, [j \in new |-> row(j).sample_count]) = Cardinality(sel)
              /\ \A j \in new : row(j).window_end > row(j).window_start
              /\ \A j, k \in new :
                    j # k => \/ row(j).window_end <= row(k).window_start
                             \/ row(k).window_end <= row(j).window_start]_vars

\* C16: every MetricWindow aggregates predictions of a single model version:
\* the sample_count and the latency statistics of a row a run stores are those
\* of the predictions of its bucket whose model_version is the row's.
C16_SingleVersion ==
    [][IsAggregation =>
          \A j \in NewMetrics :
              LET r    == model_metrics'[j]
                  same == { i \in InLookback(last'.model_name, last'.lookback_hours) :
                                /\ WindowStart(predictions[i].timestamp,
                                               r.window_size_minutes) = r.window_start
                                /\ predictions[i].model_version = r.model_version }
              IN  r.metric_type \in {"latency", "throughput"} =>
                      /\ r.sample_count = Cardinality(same)
                      /\ r.metric_type = "latency" =>
                            /\ r.min_value = MinOf({predictions[i].latency_ms : i \in same})
                            /\ r.max_value = MaxOf({predictions[i].latency_ms : i \in same})]_vars

\* C17: a run that finds no prediction of the model inside the lookback
\* returns an empty list without error and stores no row; and every row of
\* model_metrics has sample_count >= 1.
C17_EmptyOmitted ==
    [][/\ \A j \in DOMAIN model_metrics' : model_metrics'[j].sample_count >= 1
       /\ (IsAggregation /\ InLookback(last'.model_name, last'.lookback_hours) = {})
             => /\ last'.returned = 0
                /\ ~last'.raised
                /\ model_metrics' = model_metrics]_vars

\* a run for a model all of whose predictions are older than the lookback,
\* after rows without confidence values were aggregated
C17_Witness ==
    /\ last.op = "calculate_aggregated_metrics"
    /\ last.returned = 0
    /\ \E i \in DOMAIN predictions : predictions[i].model_name = last.model_name
    /\ InLookback(last.model_name, last.lookback_hours) = {}

\* C18: log_prediction succeeds for any model name and stores exactly one
\* prediction, also when no prediction of that name exists; and a run for a
\* model whose single prediction is inside the lookback returns a window that
\* contains the prediction's timestamp and counts it.
C18_UnknownModelIngested ==
    [][/\ last'.op = "log_prediction" =>
             /\ ~last'.raised
             /\ Len(predictions') = Len(predictions) + 1
             /\ \A i \in DOMAIN predictions : predictions'[i] = predictions[i]
       /\ IsAggregation =>
             LET sel == InLookback(last'.model_name, last'.lookback_hours)
             IN  \A i \in sel :
                     sel = {i} =>
                         \E j \in NewMetrics :
                             LET r == model_metrics'[j]
                             IN  /\ r.model_name = predictions[i].model_name
                                 /\ r.metric_type = "latency"
                                 /\ r.window_start <= predictions[i].timestamp
                                 /\ predictions[i].timestamp < r.window_end
                                 /\ r.sample_count = 1
                                 /\ r.metric_value =
                                       [num |-> predictions[i].latency_ms, den |-> 1]]_vars

\* the first prediction of a model name, logged without any registration, is
\* returned by the next run
C18_Witness ==
    /\ last.op = "calculate_aggregated_metrics"
    /\ last.returned > 0
    /\ Cardinality({ i \in DOMAIN predictions :
                        predictions[i].model_name = last.model_name }) = 1
    /\ \E j \in DOMAIN model_metrics :
          /\ model_metrics[j].model_name = last.model_name
          /\ model_metrics[j].sample_count = 1

\* a step of one of the two drift detectors
IsDetection == last'.op \in {"detect_data_drift", "detect_prediction_drift"}

\* the predictions of the model of the latest detector call that lie in a
\* period and carry a confidence score that enters the comparison
UsableIn(period) ==
    { i \in DOMAIN predictions :
          /\ predictions[i].model_name = last'.model_name
          /\ period.start <= predictions[i].timestamp
          /\ predictions[i].timestamp < period.end
          /\ predictions[i].confidence_score > 0 }

\* the predictions of that model in a period, with or without a score
LoggedIn(period) ==
    { i \in DOMAIN predictions :
          /\ predictions[i].model_name = last'.model_name
          /\ period.start <= predictions[i].timestamp
          /\ predictions[i].timestamp < period.end }

\* the step stored a detection of the given type
Emitted(drift_type) ==
    /\ Len(drift_detections') = Len(drift_detections) + 1
    /\ drift_detections'[Len(drift_detections')].drift_type = drift_type

\* C19: both drift detectors need MIN_SAMPLES confidence values on each
\* side: a call in which the baseline or the current period contributes
\* fewer confidence values than MIN_SAMPLES stores no DriftDetection and
\* returns none (predictions without a confidence score do not count).
C19_MinSamplesPerSide ==
    [][IsDetection =>
          ((Cardinality(UsableIn(last'.baseline)) < MIN_SAMPLES
               \/ Cardinality(UsableIn(last'.current)) < MIN_SAMPLES)
              => /\ drift_detections' = drift_detections
                 /\ last'.result = "none")]_vars

\* C20: every stored DriftDetection has drift_score above its threshold; a
\* prediction-drift detection is stored if and only if the comparison ran
\* and gave a p-value below 0.05 and a KS statistic above the threshold, a
\* population-drift detection if and only if it ran and the PSI is above the
\* PSI threshold; and no step changes or removes an earlier detection.
C20_EmittedIffExceeds ==
    [][/\ \A i \in DOMAIN drift_detections' :
             drift_detections'[i].drift_score > drift_detections'[i].threshold
       /\ Len(drift_detections') >= Len(drift_detections)
       /\ \A i \in DOMAIN drift_detections : drift_detections'[i] = drift_detections[i]
       /\ IsDetection =>
             \A b \in {UsableIn(last'.baseline)}, c \in {UsableIn(last'.current)} :
             LET n   == Cardinality(b)
                 m   == Cardinality(c)
                 ran == /\ Cardinality(LoggedIn(last'.baseline)) >= MIN_SAMPLES
                        /\ Cardinality(LoggedIn(last'.current)) >= MIN_SAMPLES
                        /\ n > 0
                        /\ m > 0
             IN  /\ last'.op = "detect_prediction_drift" =>
                       (Emitted("PREDICTION_DRIFT")
                           <=> /\ ran
                               /\ KsPValue(n, m, KsDistance(b, c)) < SignificantP
                               /\ 10 * KsDistance(b, c) > n * m)
                 /\ last'.op = "detect_data_drift" =>
                       (Emitted("DATA_DRIFT")
                           <=> (ran /\ CalculatePsi(b, c) > DATA_DRIFT_THRESHOLD))]_vars

\* a prediction-drift detection stored after a population-drift detection
C20_Witness ==
    /\ last.op = "detect_prediction_drift"
    /\ last.result = "detected"
    /\ Len(drift_detections) = 2
    /\ drift_detections[1].drift_type = "DATA_DRIFT"
    /\ drift_detections[2].drift_type = "PREDICTION_DRIFT"
    /\ drift_detections[2].p_value < SignificantP

\* C21: create_ab_test with a traffic_split outside [0, 1] creates no
\* experiment: every stored experiment has 0 <= traffic_split <= 1.
C21_SplitInRange ==
    \A t \in DOMAIN db : 0 <= db[t].traffic_split /\ db[t].traffic_split <= 1000

\* of the 100 hash buckets, the number route_prediction sends to the challenger
ChallengerBuckets(t) ==
    Cardinality({ r \in BucketIds : RouteResult(db, t, r) = db[t].challenger_model })

\* C22: a route call returns the challenger exactly when
\* (hash mod 100) / 100 < traffic_split and the champion otherwise; over the
\* 100 hash buckets the challenger fraction of a running experiment differs
\* from a traffic_split s in [0, 1] by less than 0.01, with every request to
\* the champion for s = 0 and every request to the challenger for s = 1.
C22_RouteMatchesSplit ==
    /\ (ret.op = "route" /\ ret.result # "error") =>
           LET test == db[ret.test_id]
           IN  /\ ret.result \in {test.champion_model, test.challenger_model}
               /\ ret.result = test.challenger_model
                      <=> 10 * Md5Mod100(ret.request_id) < test.traffic_split
    /\ \A t \in DOMAIN db :
           (db[t].status = RUNNING /\ 0 <= db[t].traffic_split
                /\ db[t].traffic_split <= 1000)
              => /\ 10 * ChallengerBuckets(t) - db[t].traffic_split < 10
                 /\ db[t].traffic_split - 10 * ChallengerBuckets(t) < 10
                 /\ db[t].traffic_split = 0 => ChallengerBuckets(t) = 0
                 /\ db[t].traffic_split = 1000 => ChallengerBuckets(t) = 100

\* a request of hash bucket 26 routed to the challenger under traffic_split 0.265
C22_Witness ==
    /\ ret.op = "route"
    /\ ret.result = ChallengerModel
    /\ db[ret.test_id].traffic_split = 265
    /\ ChallengerBuckets(ret.test_id) = 27

\* the predictions whose statistics cannot be computed
Malformed(i) == predictions[i].latency_ms = NotANumber

\* C23: an aggregation run does not abort on one malformed prediction: it
\* does not raise, and it stores the rows of every bucket that holds no
\* malformed prediction.
C23_BadItemSkipped ==
    [][IsAggregation =>
          /\ ~last'.raised
          /\ \A ws \in BatchWindowSizes :
             \A i \in InLookback(last'.model_name, last'.lookback_hours) :
                (\A k \in InLookback(last'.model_name, last'.lookback_hours) :
                     Malformed(k) => WindowStart(predictions[k].timestamp, ws)
                                       # WindowStart(predictions[i].timestamp, ws))
                   => \E j \in NewMetrics :
                         /\ model_metrics'[j].metric_type = "latency"
                         /\ model_metrics'[j].window_start <= predictions[i].timestamp
                         /\ predictions[i].timestamp < model_metrics'[j].window_end]_vars

\* ---------------------------------------------------------------- C24
\* A step of a call on experiment t: route_prediction, pause_test,
\* resume_test, cancel_test, or any step of a record_result on t (its load,
\* its commit, its completion check, the commit of its completion).
StepOn(t) ==
    \/ \E r \in PairRequests : route_prediction(t, r)
    \/ pause_test(t)
    \/ resume_test(t)
    \/ cancel_test(t)
    \/ \E w \in Workers, m \in PairModels : record_result_load(w, t, m, "accuracy", 3)
    \/ \E w \in DOMAIN sess :
          /\ sess[w].test_id = t
          /\ \/ record_result_commit(w)
             \/ record_result_check(w)
             \/ record_result_complete(w)

\* C24: experiments are independent: a record_result, route_prediction,
\* pause, resume, cancel or completion on one experiment leaves every field
\* of every other experiment unchanged, whatever the interleaving of the
\* calls on the two.
C24_ExperimentsIndependent ==
    [][\A u \in DOMAIN db :
          db'[u] # db[u] => \A t \in DOMAIN db \ {u} : ~StepOn(t)]_vars

\* Experiment 1 has completed through its second result while experiment 2
\* was paused and has a result of its own loaded but not yet committed.
C24_Witness ==
    /\ db[1].status = COMPLETED
    /\ db[1].challenger_samples = 1
    /\ db[2].status = PAUSED
    /\ db[2].challenger_samples = 0
    /\ pc["w2"] = "loaded"
    /\ sess["w2"].test_id = 2

\* ---------------------------------------------------------------- C25
\* the rule has an alert in the history that is younger than its cooldown
CoolingDown(rule_name) ==
    \E i \in DOMAIN alert_history :
       /\ alert_history[i].alert_id[1] = rule_name
       /\ utc - alert_history[i].timestamp < AlertRules[rule_name].cooldown_minutes

\* the evaluate_alerts call of this step created an alert of the rule
FiredNow(rule_name) ==
    \E i \in DOMAIN last'.new : last'.new[i][1] = rule_name

\* the drift result of the call says drift_detected = true
DriftSaysTrue(dr) ==
    /\ ~dr.none
    /\ "drift_detected" \in DOMAIN dr
    /\ dr.drift_detected

\* the value at the rule's metric path exists and is beyond the threshold
NumericHolds(rule_name, m) ==
    CASE rule_name = "high_error_rate" ->
            "error_rate" \in DOMAIN m /\ m.error_rate > 5
      [] rule_name = "slow_response_time" ->
            /\ "response_time" \in DOMAIN m
            /\ "p95" \in DOMAIN m.response_time
            /\ m.response_time.p95 > 2000
      [] rule_name = "low_confidence" ->
            /\ "confidence" \in DOMAIN m
            /\ "mean" \in DOMAIN m.confidence
            /\ m.confidence.mean < 75
      [] OTHER -> FALSE

\* C25: in an evaluate_alerts call the drift rule fires exactly when it is
\* not in cooldown and the drift result has drift_detected = true (never
\* with no drift result, or with drift_detected false or absent, whatever
\* the numeric metrics); a numeric rule fires exactly when it is not in
\* cooldown and the value at its metric path is beyond its threshold, and
\* not when the path is missing.
C25_DriftRuleShortCircuits ==
    [][last'.op = "evaluate_alerts" =>
          /\ FiredNow("drift_detected")
                <=> (~CoolingDown("drift_detected") /\ DriftSaysTrue(last'.drift_result))
          /\ \A r \in RuleNames \ {"drift_detected"} :
                FiredNow(r) <=> (~CoolingDown(r) /\ NumericHolds(r, last'.metrics))]_vars

\* A call whose numeric values all sit at their thresholds created the drift
\* alert alone.
C25_Witness ==
    /\ last.op = "evaluate_alerts"
    /\ last.metrics = [ error_rate |-> 5, response_time |-> [p95 |-> 2000],
                        confidence |-> [mean |-> 75] ]
    /\ last.drift_result = [ none |-> FALSE, drift_detected |-> TRUE ]
    /\ Len(last.new) = 1
    /\ last.new[1][1] = "drift_detected"

\* ---------------------------------------------------------------- C26
\* C26: cooldowns are per rule.  A rule enters its cooldown only through an
\* alert of its own, created in that step; and in every evaluate_alerts
\* call a rule whose condition holds and that has no alert of its own
\* younger than its own cooldown creates an alert, whatever the other rules
\* fired, so a rule whose cooldown has elapsed fires again.
C26_CooldownPerRule ==
    [][\A r \in RuleNames :
          /\ (~IsInCooldown(alert_history, r, utc) /\ IsInCooldown(alert_history', r, utc'))
                => (last'.op = "evaluate_alerts" /\ FiredNow(r))
          /\ (/\ last'.op = "evaluate_alerts"
              /\ CheckThreshold(AlertRules[r], last'.metrics, last'.drift_result)
              /\ ~CoolingDown(r))
                => FiredNow(r)]_vars

\* slow_response_time (cooldown 10) has fired a second time, ten minutes
\* after its first alert, in a call in which high_error_rate (cooldown 15),
\* fired in the first call, stayed silent although its condition held.
C26_Witness ==
    /\ last.op = "evaluate_alerts"
    /\ utc = 10
    /\ last.metrics.error_rate = 6
    /\ last.new = << <<"slow_response_time", 10>> >>
    /\ \E i \in DOMAIN alert_history : alert_history[i].alert_id = <<"slow_response_time", 0>>
    /\ \E i \in DOMAIN alert_history : alert_history[i].alert_id = <<"high_error_rate", 0>>

\* ---------------------------------------------------------------- C27
\* C27: in every reachable state an experiment with winner champion or
\* challenger has status COMPLETED, and an experiment has a completed_at
\* timestamp only when its status is COMPLETED or CANCELLED.
C27_WinnerOnlyWhenCompleted ==
    \A t \in DOMAIN db :
       /\ db[t].winner \in {"champion", "challenger"} => db[t].status = COMPLETED
       /\ db[t].completed_at # NoTime => db[t].status \in {COMPLETED, CANCELLED}

\* ---------------------------------------------------------------- C28
\* the result fields of a stored experiment; a NULL metrics column holds no
\* series
ResultFields(test) ==
    [ champion_samples   |-> test.champion_samples,
      challenger_samples |-> test.challenger_samples,
      champion_series    |-> IF test.metrics.null THEN EmptyMetrics.champion
                             ELSE test.metrics.champion,
      challenger_series  |-> IF test.metrics.null THEN EmptyMetrics.challenger
                             ELSE test.metrics.challenger,
      status             |-> test.status,
      winner             |-> test.winner,
      statistical_significance |-> test.statistical_significance ]

\* C28: a record_result call whose model matches neither the champion nor
\* the challenger changes nothing: at every step of the call the sample
\* counts, the metric series, the status, the winner and the significance
\* flag of the experiment stay as they were.  (Every record_result call of
\* SpecOther passes such a model.)
C28_UnknownModelNoEffect ==
    [][\A w \in DOMAIN sess :
          (VariantOf(db[sess[w].test_id], OtherModel) = "none" /\ pc'[w] # pc[w])
             => ResultFields(db'[sess[w].test_id]) = ResultFields(db[sess[w].test_id])]_vars

\* ---------------------------------------------------------------- C29
\* C29: whenever the statistical_significance flag of an experiment is true,
\* both sample counts are at least min_sample_size and some metric has at
\* least min_sample_size stored values on both sides; the flag is never
\* reset.
C29_FlagImpliesSamples ==
    \A t \in DOMAIN db :
       db[t].statistical_significance =>
          /\ db[t].champion_samples >= db[t].min_sample_size
          /\ db[t].challenger_samples >= db[t].min_sample_size
          /\ ~db[t].metrics.null
          /\ \E m \in MetricNames :
                /\ Len(db[t].metrics.champion[m]) >= db[t].min_sample_size
                /\ Len(db[t].metrics.challenger[m]) >= db[t].min_sample_size

\* no stored experiment carries the flag
C29_FlagNeverSet ==
    \A t \in DOMAIN db : ~db[t].statistical_significance

\* ---------------------------------------------------------------- C30
\* C30: resume changes state only for a PAUSED experiment, which becomes
\* RUNNING with every other field and every other experiment as before; a
\* resume of a RUNNING, COMPLETED or CANCELLED experiment, and a pause,
\* resume or cancel of an unknown id, leave the stored experiments as they
\* are and create none.  No stored experiment becomes RUNNING from any status
\* but PAUSED.  (Stated over the steps that change the table: such a step is
\* a resume only of a PAUSED experiment, and no call on an unknown id.)
C30_ResumeOnlyFromPaused ==
    [][db' # db =>
          /\ \A t \in PairCallIds :
                resume_test(t) =>
                   /\ t \in DOMAIN db
                   /\ db[t].status = PAUSED
                   /\ DOMAIN db' = DOMAIN db
                   /\ db'[t].status = RUNNING
                   /\ \A f \in DOMAIN db[t] \ {"status"} : db'[t][f] = db[t][f]
                   /\ \A u \in DOMAIN db \ {t} : db'[u] = db[u]
          /\ \A t \in PairCallIds \ DOMAIN db :
                ~(pause_test(t) \/ resume_test(t) \/ cancel_test(t))
          /\ \A t \in DOMAIN db :
                (db[t].status # RUNNING /\ db'[t].status = RUNNING)
                   => db[t].status = PAUSED]_vars

\* A record_result call loaded experiment 1 while it was PAUSED and the
\* experiment is RUNNING again, so a resume acted on a PAUSED experiment;
\* experiment 2 is CANCELLED and every resume of it left it so; id 99 names
\* no experiment.
C30_Witness ==
    /\ DOMAIN db = {1, 2}
    /\ pc["w1"] = "loaded"
    /\ sess["w1"].test_id = 1
    /\ sess["w1"].status = PAUSED
    /\ db[1].status = RUNNING
    /\ db[1].completed_at = NoTime
    /\ db[2].status = CANCELLED

====
